---- MODULE Spec2Model ----
(***************************************************************************)
(* The query-intent pipeline of the restaurant assistant:                  *)
(* AIAgent.processMessage (src/src/lib/aiAgent.ts) with the rate limiter   *)
(* it imports from ./openai.  Strings that the code converts (toLowerCase, *)
(* includes, trim, split) are sequences of one-character strings; every    *)
(* other string is a TLA+ string.  Times are milliseconds.                 *)
(***************************************************************************)
EXTENDS Integers, Sequences, FiniteSets, TLC

VARIABLES
    now,            \* Date.now() / the timer clock
    requests,       \* rateLimiter.requests
    isProcessing,   \* AIAgent.isProcessing
    callState,      \* per processMessage call: "new", "racing", or how it returned
    userMessage,    \* per call: index of its utterance in Utterances (0: none)
    returned,       \* the latest return of processMessage: the call and its AIResponse
    stage,          \* per call: where its processMessageInternal run stands
    locals,         \* per call: type, category, queryResult, error of the live run
    timeoutTimer,   \* per call: due time of the whole-request setTimeout
    abortTimer,     \* per call and LLM stage: due time of the 8 s setTimeout
    stubs,          \* a stubbed run: its utterance and what each collaborator answers
    limiterCall,    \* a limiter driven directly: the class, its last call and result
    peerProcessing, \* isProcessing of a second AIAgent of the same page
    fallbackCall,   \* the keyword fallback applied directly: the utterance and its tag
    backendCall     \* a QueryAIBackend.query call: what fetch does and what it returns

vars == <<now, requests, isProcessing, callState, userMessage, returned,
          stage, locals, timeoutTimer, abortTimer, stubs, limiterCall,
          peerProcessing, fallbackCall, backendCall>>

\* what the first agent, its limiter and its timers leave alone
idle == <<peerProcessing, fallbackCall, backendCall>>

-----------------------------------------------------------------------------
(* Bounds of the model *)

MaxCalls == 3
MaxTime == 15000
MaxRecorded == 11
MaxKeywords == 3

(* Program constants *)

processingTimeout == 15000
abortTimeout == 8000
maxRequests == 5
timeWindow == 60000

Calls == 1..MaxCalls

-----------------------------------------------------------------------------
(* JavaScript values *)

Null == "<null>"
Undefined == "<undefined>"
NullData == [kind |-> "null"]
UndefinedData == [kind |-> "undefined"]
NoTimer == -1

Max(a, b) == IF a >= b THEN a ELSE b

RECURSIVE MinOf(_)
MinOf(s) ==
    IF Len(s) = 1 THEN s[1]
    ELSE LET m == MinOf(Tail(s)) IN IF s[1] <= m THEN s[1] ELSE m

\* Math.ceil(ms / 1000) for ms >= 0
CeilSeconds(ms) == (ms + 999) \div 1000

-----------------------------------------------------------------------------
(* String primitives, on sequences of characters *)

UpperCase == <<"A", "B", "C", "D", "E", "F", "G", "H", "I", "J", "K", "L", "M",
               "N", "O", "P", "Q", "R", "S", "T", "U", "V", "W", "X", "Y", "Z">>
LowerCase == <<"a", "b", "c", "d", "e", "f", "g", "h", "i", "j", "k", "l", "m",
               "n", "o", "p", "q", "r", "s", "t", "u", "v", "w", "x", "y", "z">>

LowerChar(ch) ==
    IF \E i \in 1..Len(UpperCase) : UpperCase[i] = ch
    THEN LowerCase[CHOOSE i \in 1..Len(UpperCase) : UpperCase[i] = ch]
    ELSE ch

toLowerCase(s) == [i \in 1..Len(s) |-> LowerChar(s[i])]

includes(s, sub) ==
    \E i \in 1..(Len(s) - Len(sub) + 1) : SubSeq(s, i, i + Len(sub) - 1) = sub

WhiteSpace == {" ", "\t", "\n"}

RECURSIVE trimStart(_)
trimStart(s) ==
    IF Len(s) > 0 /\ s[1] \in WhiteSpace THEN trimStart(Tail(s)) ELSE s

RECURSIVE trimEnd(_)
trimEnd(s) ==
    IF Len(s) > 0 /\ s[Len(s)] \in WhiteSpace
    THEN trimEnd(SubSeq(s, 1, Len(s) - 1)) ELSE s

trim(s) == trimEnd(trimStart(s))

\* s.split(sep) for a one-character separator: always at least one part
RECURSIVE split(_, _)
split(s, sep) ==
    IF \E i \in 1..Len(s) : s[i] = sep
    THEN LET i == CHOOSE k \in 1..Len(s) :
                      s[k] = sep /\ \A j \in 1..(k - 1) : s[j] # sep
         IN <<SubSeq(s, 1, i - 1)>> \o split(SubSeq(s, i + 1, Len(s)), sep)
    ELSE <<s>>

\* the TLA+ string spelled by a sequence of characters
RECURSIVE Join(_)
Join(s) == IF Len(s) = 0 THEN "" ELSE s[1] \o Join(Tail(s))

-----------------------------------------------------------------------------
(* Utterances the caller may send and texts the classifier LLM may answer
   with.  UtteranceIds and ContentIds are the ones the state machine draws. *)

Utterances == <<
    <<"W", "h", "a", "t", "'", "s", " ", "t", "h", "e", " ", "c", "h", "e", "a", "p", "e", "s", "t", " ", "i", "t", "e", "m", "?">>,
    <<"H", "o", "w", " ", "a", "r", "e", " ", "y", "o", "u", "?">>,
    <<"S", "h", "o", "w", " ", "m", "e", " ", "d", "e", "s", "s", "e", "r", "t", "s">>,
    <<"W", "h", "a", "t", "'", "s", " ", "t", "o", "d", "a", "y", "'", "s", " ", "r", "e", "v", "e", "n", "u", "e", "?">>,
    <<"H", "o", "w", " ", "m", "a", "n", "y", " ", "p", "e", "n", "d", "i", "n", "g", " ", "o", "r", "d", "e", "r", "s", "?">>,
    <<"W", "h", "a", "t", " ", "c", "a", "t", "e", "g", "o", "r", "i", "e", "s", " ", "d", "o", " ", "y", "o", "u", " ", "h", "a", "v", "e", "?">>,
    <<"W", "h", "a", "t", "'", "s", " ", "t", "h", "e", " ", "m", "o", "s", "t", " ", "e", "x", "p", "e", "n", "s", "i", "v", "e", " ", "i", "t", "e", "m", "?">> >>

ClassifierContents == <<
    <<"r", "e", "v", "e", "n", "u", "e">>,
    <<"c", "a", "t", "e", "g", "o", "r", "y", "_", "i", "t", "e", "m", "s", "|", "d", "e", "s", "s", "e", "r", "t">>,
    <<"S", "u", "r", "e", ",", " ", "h", "a", "p", "p", "y", " ", "t", "o", " ", "h", "e", "l", "p">>,
    <<" ", "p", "e", "n", "d", "i", "n", "g", "_", "o", "r", "d", "e", "r", "s", " ">>,
    <<"c", "a", "t", "e", "g", "o", "r", "y", "_", "i", "t", "e", "m", "s", "|">>,
    <<"c", "h", "e", "a", "p", "e", "s", "t", "_", "i", "t", "e", "m">>,
    <<"e", "x", "p", "e", "n", "s", "i", "v", "e", "_", "i", "t", "e", "m">>,
    <<"c", "a", "t", "e", "g", "o", "r", "i", "e", "s">>,
    <<"c", "a", "t", "e", "g", "o", "r", "y", "_", "i", "t", "e", "m", "s">>,
    <<"g", "e", "n", "e", "r", "a", "l">>,
    <<>> >>

UtteranceIds == {1}
ContentIds == {1}

-----------------------------------------------------------------------------
(* RateLimiter: the instance exported with the named `openai` client that
   aiAgent.ts imports.  requests is the array of admitted timestamps. *)

filterWindow(reqs, t) == SelectSeq(reqs, LAMBDA time : t - time < timeWindow)

\* canMakeRequest(): the value returned
canMakeRequest(reqs, t) == ~(Len(filterWindow(reqs, t)) >= maxRequests)

\* canMakeRequest(): this.requests afterwards
canMakeRequestRequests(reqs, t) ==
    IF Len(filterWindow(reqs, t)) >= maxRequests
    THEN filterWindow(reqs, t)
    ELSE Append(filterWindow(reqs, t), t)

getWaitTime(reqs, t) ==
    IF Len(reqs) = 0 THEN 0
    ELSE Max(0, timeWindow - (t - MinOf(reqs)))

-----------------------------------------------------------------------------
(* AIAgent.analyzeQuery: the part after the LLM call settles *)

kw_cheapest == <<"c", "h", "e", "a", "p", "e", "s", "t">>
kw_lowest_price == <<"l", "o", "w", "e", "s", "t", " ", "p", "r", "i", "c", "e">>
kw_expensive == <<"e", "x", "p", "e", "n", "s", "i", "v", "e">>
kw_highest_price == <<"h", "i", "g", "h", "e", "s", "t", " ", "p", "r", "i", "c", "e">>
kw_pending == <<"p", "e", "n", "d", "i", "n", "g">>
kw_orders == <<"o", "r", "d", "e", "r", "s">>
kw_revenue == <<"r", "e", "v", "e", "n", "u", "e">>
kw_sales == <<"s", "a", "l", "e", "s">>
kw_categories == <<"c", "a", "t", "e", "g", "o", "r", "i", "e", "s">>
kw_types == <<"t", "y", "p", "e", "s">>
kw_dessert == <<"d", "e", "s", "s", "e", "r", "t">>
kw_drink == <<"d", "r", "i", "n", "k">>
kw_beverage == <<"b", "e", "v", "e", "r", "a", "g", "e">>

tag_cheapest_item == <<"c", "h", "e", "a", "p", "e", "s", "t", "_", "i", "t", "e", "m">>
tag_expensive_item == <<"e", "x", "p", "e", "n", "s", "i", "v", "e", "_", "i", "t", "e", "m">>
tag_pending_orders == <<"p", "e", "n", "d", "i", "n", "g", "_", "o", "r", "d", "e", "r", "s">>
tag_revenue == <<"r", "e", "v", "e", "n", "u", "e">>
tag_categories == <<"c", "a", "t", "e", "g", "o", "r", "i", "e", "s">>
tag_category_items_dessert == <<"c", "a", "t", "e", "g", "o", "r", "y", "_", "i", "t", "e", "m", "s", "|", "d", "e", "s", "s", "e", "r", "t">>
tag_category_items_drink == <<"c", "a", "t", "e", "g", "o", "r", "y", "_", "i", "t", "e", "m", "s", "|", "d", "r", "i", "n", "k">>
tag_general == <<"g", "e", "n", "e", "r", "a", "l">>

\* variant: the dessert row returns the tag without its argument
keywordFallbackBareCategory(text) ==
    LET message == toLowerCase(text) IN
    IF includes(message, kw_cheapest) \/ includes(message, kw_lowest_price)
        THEN tag_cheapest_item
    ELSE IF includes(message, kw_expensive) \/ includes(message, kw_highest_price)
        THEN tag_expensive_item
    ELSE IF includes(message, kw_pending) \/ includes(message, kw_orders)
        THEN tag_pending_orders
    ELSE IF includes(message, kw_revenue) \/ includes(message, kw_sales)
        THEN tag_revenue
    ELSE IF includes(message, kw_categories) \/ includes(message, kw_types)
        THEN tag_categories
    ELSE IF includes(message, kw_dessert)
        THEN SubSeq(tag_category_items_dessert, 1, 14)
    ELSE IF includes(message, kw_drink) \/ includes(message, kw_beverage)
        THEN tag_category_items_drink
    ELSE tag_general

\* variant: the row of pending/orders is tested first
keywordFallbackOrdersFirst(text) ==
    LET message == toLowerCase(text) IN
    IF includes(message, kw_pending) \/ includes(message, kw_orders)
        THEN tag_pending_orders
    ELSE IF includes(message, kw_cheapest) \/ includes(message, kw_lowest_price)
        THEN tag_cheapest_item
    ELSE IF includes(message, kw_expensive) \/ includes(message, kw_highest_price)
        THEN tag_expensive_item
    ELSE IF includes(message, kw_revenue) \/ includes(message, kw_sales)
        THEN tag_revenue
    ELSE IF includes(message, kw_categories) \/ includes(message, kw_types)
        THEN tag_categories
    ELSE IF includes(message, kw_dessert)
        THEN tag_category_items_dessert
    ELSE IF includes(message, kw_drink) \/ includes(message, kw_beverage)
        THEN tag_category_items_drink
    ELSE tag_general

\* the keyword table of the catch block, scanned in order
keywordFallback(text) ==
    LET message == toLowerCase(text) IN
    IF includes(message, kw_cheapest) \/ includes(message, kw_lowest_price)
        THEN tag_cheapest_item
    ELSE IF includes(message, kw_expensive) \/ includes(message, kw_highest_price)
        THEN tag_expensive_item
    ELSE IF includes(message, kw_pending) \/ includes(message, kw_orders)
        THEN tag_pending_orders
    ELSE IF includes(message, kw_revenue) \/ includes(message, kw_sales)
        THEN tag_revenue
    ELSE IF includes(message, kw_categories) \/ includes(message, kw_types)
        THEN tag_categories
    ELSE IF includes(message, kw_dessert)
        THEN tag_category_items_dessert
    ELSE IF includes(message, kw_drink) \/ includes(message, kw_beverage)
        THEN tag_category_items_drink
    ELSE tag_general

(* What an openai.chat.completions.create call can settle with: a completion
   (content 0 stands for a completion without content) or a rejection with
   the error's name and HTTP status (0: none). *)
ErrorOutcomes ==
    { [kind |-> "error", name |-> "AbortError", status |-> 0],
      [kind |-> "error", name |-> "Error", status |-> 429],
      [kind |-> "error", name |-> "Error", status |-> 401],
      [kind |-> "error", name |-> "Error", status |-> 500] }

ClassifyOutcomes ==
    { [kind |-> "ok", content |-> i] : i \in ContentIds \cup {0} } \cup ErrorOutcomes

\* the rejection of analyzeQuery when the local limiter refuses
analyzeQueryRateLimited(waitMs) ==
    [threw |-> TRUE,
     message |-> "Rate limit exceeded. Please wait " \o ToString(CeilSeconds(waitMs))
                 \o " seconds before trying again."]

\* analyzeQuery from the point where the LLM call settles with outcome o
analyzeQuerySettled(text, o) ==
    IF o.kind = "ok" THEN
        LET content == IF o.content = 0 THEN <<>>
                       ELSE trim(ClassifierContents[o.content])
        IN [threw |-> FALSE,
            queryType |-> IF content = <<>> THEN tag_general ELSE content]
    ELSE IF o.name = "AbortError" THEN
        [threw |-> TRUE, message |-> "Request timed out. Please try again."]
    ELSE IF o.status = 429 THEN
        [threw |-> TRUE,
         message |-> "OpenAI rate limit exceeded. Please wait a moment and try again."]
    ELSE IF o.status = 401 THEN
        [threw |-> TRUE,
         message |-> "OpenAI API authentication failed. Please check the API key."]
    ELSE [threw |-> FALSE, queryType |-> keywordFallback(text)]

-----------------------------------------------------------------------------
(* The data accessors (aiQueries).  A query result is a record whose kind
   names its JavaScript shape; prices are whole dollars, revenue is cents. *)

Accessors == {"getCheapestMenuItem", "getMostExpensiveMenuItem",
              "getMenuItemsByCategory", "getPendingOrdersCount",
              "getTodayRevenue", "getMenuCategories"}

SampleData(accessor) ==
    CASE accessor = "getCheapestMenuItem" ->
            { [kind |-> "item", name |-> "Tea", price |-> 2, category |-> "drink"] }
      [] accessor = "getMostExpensiveMenuItem" ->
            { [kind |-> "item", name |-> "Steak", price |-> 30, category |-> "main"] }
      [] accessor = "getMenuItemsByCategory" ->
            { [kind |-> "items", items |-> <<>>],
              [kind |-> "items", items |-> <<[name |-> "Cake", price |-> 6]>>],
              [kind |-> "items", items |-> <<[name |-> "Cake", price |-> 6],
                                             [name |-> "Pie", price |-> 5]>>] }
      [] accessor = "getPendingOrdersCount" ->
            { [kind |-> "count", count |-> 3] }
      [] accessor = "getTodayRevenue" ->
            { [kind |-> "revenue", cents |-> 24550, orderCount |-> 12] }
      [] accessor = "getMenuCategories" ->
            { [kind |-> "names", names |-> <<"dessert", "drink">>] }

\* what an accessor call can settle with
AccessorOutcomes(accessor) ==
    { [kind |-> "success", data |-> d] : d \in SampleData(accessor) }
    \cup { [kind |-> "failure", error |-> "Store unreachable"], [kind |-> "throw"] }

-----------------------------------------------------------------------------
(* AIAgent.generateResponse *)

GeneratedTexts == {"Here is what I found.", Null}

GenerateOutcomes == { [kind |-> "ok", text |-> t] : t \in GeneratedTexts } \cup ErrorOutcomes

\* variant: the amount is printed without toFixed, trailing zero dropped
toFixed2Unpadded(cents) ==
    ToString(cents \div 100) \o "."
        \o ToString((cents % 100) \div 10)
        \o (IF cents % 10 = 0 THEN "" ELSE ToString(cents % 10))

\* Number.prototype.toFixed(2) of an amount held in cents
toFixed2(cents) ==
    ToString(cents \div 100) \o "."
        \o ToString((cents % 100) \div 10) \o ToString(cents % 10)

RECURSIVE joinComma(_)
joinComma(strs) ==
    IF Len(strs) = 0 THEN ""
    ELSE IF Len(strs) = 1 THEN strs[1]
    ELSE strs[1] \o ", " \o joinComma(Tail(strs))

itemLabels(items) ==
    [i \in 1..Len(items) |-> items[i].name \o " ($" \o ToString(items[i].price) \o ")"]

\* the switch of the catch block: the per-intent templates
fallbackTemplate(queryType, queryResult) ==
    CASE queryType = "cheapest_item" ->
            "The cheapest item on our menu is " \o queryResult.name \o " priced at $"
            \o ToString(queryResult.price) \o " in the " \o queryResult.category
            \o " category."
      [] queryType = "expensive_item" ->
            "The most expensive item is " \o queryResult.name \o " at $"
            \o ToString(queryResult.price) \o " in the " \o queryResult.category
            \o " category."
      [] queryType = "pending_orders" ->
            "There are currently " \o ToString(queryResult.count) \o " pending orders."
      [] queryType = "revenue" ->
            "Today's revenue is $" \o toFixed2(queryResult.cents) \o " from "
            \o ToString(queryResult.orderCount) \o " completed orders."
      [] queryType = "categories" ->
            "Our menu categories include: " \o joinComma(queryResult.names) \o "."
      [] queryType = "category_items" ->
            IF Len(queryResult.items) > 0
            THEN "Here are the items in that category: "
                 \o joinComma(itemLabels(queryResult.items)) \o "."
            ELSE "No items found in that category."
      [] OTHER ->
            "I found some information but had trouble formatting the response. Please try asking again."

\* variant: the refusal of the limiter is answered with the generic apology
generateResponseRateLimitedGeneric(waitMs) ==
    "I apologize, but I encountered an error processing your request. Please try again with a simpler question."

\* the early answer of generateResponse when the local limiter refuses
generateResponseRateLimited(waitMs) ==
    "I'm currently rate limited. Please wait " \o ToString(CeilSeconds(waitMs))
    \o " seconds before asking another question."

\* variant: an empty array is taken for a missing result
truthyDataEmptyListFalsy(d) ==
    /\ d.kind \notin {"null", "undefined"}
    /\ d.kind = "items" => Len(d.items) > 0

\* truthiness of a query result (objects and arrays are truthy) and of a string
truthyData(d) == d.kind \notin {"null", "undefined"}
truthyString(str) == str \notin {Null, Undefined, ""}

\* variant: a completion without content is returned as it is
generateResponseSettledNoDefault(o, queryResult, queryType) ==
    IF o.kind = "ok" THEN o.text
    ELSE IF o.name = "AbortError" THEN
        "Request timed out. Please try a simpler question."
    ELSE IF o.status = 429 THEN
        "I'm currently experiencing high demand. Please wait a moment and try again."
    ELSE IF truthyData(queryResult) /\ truthyString(queryType) THEN
        fallbackTemplate(queryType, queryResult)
    ELSE "I apologize, but I encountered an error processing your request. Please try again with a simpler question."

\* variant: the catch block has no per-intent templates
generateResponseSettledNoTemplate(o, queryResult, queryType) ==
    IF o.kind = "ok" THEN
        IF truthyString(o.text) THEN o.text
        ELSE "I apologize, but I encountered an error processing your request."
    ELSE IF o.name = "AbortError" THEN
        "Request timed out. Please try a simpler question."
    ELSE IF o.status = 429 THEN
        "I'm currently experiencing high demand. Please wait a moment and try again."
    ELSE "I apologize, but I encountered an error processing your request. Please try again with a simpler question."

\* generateResponse from the point where the LLM call settles with outcome o
generateResponseSettled(o, queryResult, queryType) ==
    IF o.kind = "ok" THEN
        IF truthyString(o.text) THEN o.text
        ELSE "I apologize, but I encountered an error processing your request."
    ELSE IF o.name = "AbortError" THEN
        "Request timed out. Please try a simpler question."
    ELSE IF o.status = 429 THEN
        "I'm currently experiencing high demand. Please wait a moment and try again."
    ELSE IF truthyData(queryResult) /\ truthyString(queryType) THEN
        fallbackTemplate(queryType, queryResult)
    ELSE "I apologize, but I encountered an error processing your request. Please try again with a simpler question."

-----------------------------------------------------------------------------
(* AIAgent.processMessage: its three fixed responses *)

AlreadyProcessingResponse ==
    [message |-> "I'm still processing your previous question. Please wait a moment.",
     data |-> UndefinedData,
     error |-> "Already processing"]

TimeoutResponse ==
    [message |-> "Sorry, that took too long to process. Please try a simpler question.",
     data |-> UndefinedData,
     error |-> "Timeout"]

\* variant: the catch block looks for the wrong message
catchResponseWrongMessage(errorMessage) ==
    IF errorMessage = "Timeout" THEN TimeoutResponse
    ELSE [message |-> IF errorMessage = ""
                      THEN "I apologize, but I encountered an error. Please try again."
                      ELSE errorMessage,
          data |-> UndefinedData,
          error |-> "Processing error"]

\* the catch block, for a rejection whose Error has this message
catchResponse(errorMessage) ==
    IF errorMessage = "Processing timeout" THEN TimeoutResponse
    ELSE [message |-> IF errorMessage = ""
                      THEN "I apologize, but I encountered an error. Please try again."
                      ELSE errorMessage,
          data |-> UndefinedData,
          error |-> "Processing error"]

NoResponse == [message |-> Undefined, data |-> UndefinedData, error |-> Undefined]

\* variant: the default case of the switch lists the menu categories
accessorForDefaultCategories(type, category) ==
    CASE type = "cheapest_item" -> "getCheapestMenuItem"
      [] type = "expensive_item" -> "getMostExpensiveMenuItem"
      [] type = "category_items" ->
            IF truthyString(category) THEN "getMenuItemsByCategory" ELSE "none"
      [] type = "pending_orders" -> "getPendingOrdersCount"
      [] type = "revenue" -> "getTodayRevenue"
      [] OTHER -> "getMenuCategories"

\* the switch of processMessageInternal: the accessor a tag selects
accessorFor(type, category) ==
    CASE type = "cheapest_item" -> "getCheapestMenuItem"
      [] type = "expensive_item" -> "getMostExpensiveMenuItem"
      [] type = "category_items" ->
            IF truthyString(category) THEN "getMenuItemsByCategory" ELSE "none"
      [] type = "pending_orders" -> "getPendingOrdersCount"
      [] type = "revenue" -> "getTodayRevenue"
      [] type = "categories" -> "getMenuCategories"
      [] OTHER -> "none"

NoLocals == [type |-> Undefined, category |-> Undefined,
             queryResult |-> NullData, error |-> Null]

-----------------------------------------------------------------------------
(* The state machine.  A call is "new" until processMessage is called for it,
   "racing" while processMessage awaits Promise.race, and then "busy" (turned
   away by the guard), "done" (the race settled with the run's result or
   error) or "timedOut" (the race settled with the deadline).  The frame of a
   run (userMessage, locals) is dropped when the run ends. *)

Stages == {"classify", "generate"}

\* outside a stubbed run and outside a direct use of a limiter
NoStubs == [utterance |-> 0]
NoLimiterCall == [class |-> "none", op |-> "none", at |-> 0, ok |-> FALSE,
                  wait |-> 0, admitted |-> <<>>]
NoFallbackCall == [state |-> "none"]
NoBackendCall == [state |-> "none"]

\* the state after construction of the limiter and of the agent
Constructed ==
    /\ now = 0
    /\ requests = <<>>
    /\ isProcessing = FALSE
    /\ callState = [c \in Calls |-> "new"]
    /\ userMessage = [c \in Calls |-> 0]
    /\ returned = [call |-> 0, response |-> NoResponse]
    /\ stage = [c \in Calls |-> "none"]
    /\ locals = [c \in Calls |-> NoLocals]
    /\ timeoutTimer = [c \in Calls |-> NoTimer]
    /\ abortTimer = [c \in Calls |-> [s \in Stages |-> NoTimer]]
    /\ peerProcessing = FALSE

\* neither the keyword fallback nor the QueryAI backend is driven directly
NoDirectCalls ==
    /\ fallbackCall = NoFallbackCall
    /\ backendCall = NoBackendCall

Init ==
    /\ Constructed
    /\ stubs = NoStubs
    /\ limiterCall = NoLimiterCall
    /\ NoDirectCalls

\* variant: the guard is cleared on success and error but not on the deadline
raceSettlesKeepsGuardOnTimeout(c, how, resp) ==
    IF callState[c] = "racing"
    THEN /\ callState' = [callState EXCEPT ![c] = how]
         /\ returned' = [call |-> c, response |-> resp]
         /\ isProcessing' = (how = "timedOut")
    ELSE UNCHANGED <<callState, returned, isProcessing>>

\* variant: the run and the timer each return and clear the guard on their own
raceSettlesEachSettles(c, how, resp) ==
    /\ callState' = [callState EXCEPT ![c] = how]
    /\ returned' = [call |-> c, response |-> resp]
    /\ isProcessing' = FALSE

(* Promise.race settles with the result of call c's run (how = "done") or
   with its deadline (how = "timedOut"): if processMessage is still awaiting
   the race it returns resp and its finally block clears the guard; a race
   that has settled before ignores it. *)
raceSettles(c, how, resp) ==
    IF callState[c] = "racing"
    THEN /\ callState' = [callState EXCEPT ![c] = how]
         /\ returned' = [call |-> c, response |-> resp]
         /\ isProcessing' = FALSE
    ELSE UNCHANGED <<callState, returned, isProcessing>>

\* processMessageInternal of call c ends: its frame is gone
runEnds(c, how) ==
    /\ stage' = [stage EXCEPT ![c] = how]
    /\ locals' = [locals EXCEPT ![c] = NoLocals]
    /\ userMessage' = [userMessage EXCEPT ![c] = 0]

(* processMessageInternal from its call of generateResponse on: the limiter
   check, then either the early rate-limit answer or the LLM call. *)
generateStart(c, loc, abt) ==
    LET admitted == canMakeRequest(requests, now)
        reqs == canMakeRequestRequests(requests, now)
    IN  /\ requests' = reqs
        /\ IF admitted
           THEN /\ stage' = [stage EXCEPT ![c] = "generating"]
                /\ locals' = [locals EXCEPT ![c] = loc]
                /\ abortTimer' = [abt EXCEPT ![c]["generate"] = now + abortTimeout]
                /\ UNCHANGED <<callState, returned, isProcessing, userMessage>>
           ELSE /\ runEnds(c, "resolved")
                /\ abortTimer' = abt
                /\ raceSettles(c, "done",
                      [message |-> generateResponseRateLimited(getWaitTime(reqs, now)),
                       data |-> loc.queryResult,
                       error |-> loc.error])

\* variant: the guard is never found set
alreadyProcessingNever == FALSE

\* the test of the guard at the entry of processMessage
alreadyProcessing == isProcessing

\* variant: the early return sits inside the try/finally and clears the guard
returnAlreadyProcessingClearsGuard(c) ==
    /\ callState' = [callState EXCEPT ![c] = "busy"]
    /\ returned' = [call |-> c, response |-> AlreadyProcessingResponse]
    /\ isProcessing' = FALSE

\* the early return of processMessage, ahead of its try/finally
returnAlreadyProcessing(c) ==
    /\ callState' = [callState EXCEPT ![c] = "busy"]
    /\ returned' = [call |-> c, response |-> AlreadyProcessingResponse]
    /\ UNCHANGED isProcessing

(* processMessage(userMessage) is called: the guard test, the deadline timer,
   and processMessageInternal up to its first suspension in analyzeQuery. *)
processMessage(c, u) ==
    /\ callState[c] = "new"
    /\ \A d \in Calls : d < c => callState[d] # "new"
    /\ IF alreadyProcessing
       THEN /\ returnAlreadyProcessing(c)
            /\ UNCHANGED <<requests, userMessage, stage, timeoutTimer, abortTimer>>
       ELSE LET admitted == canMakeRequest(requests, now)
                reqs == canMakeRequestRequests(requests, now)
            IN  /\ requests' = reqs
                /\ timeoutTimer' = [timeoutTimer EXCEPT ![c] = now + processingTimeout]
                /\ IF admitted
                   THEN /\ isProcessing' = TRUE
                        /\ callState' = [callState EXCEPT ![c] = "racing"]
                        /\ userMessage' = [userMessage EXCEPT ![c] = u]
                        /\ stage' = [stage EXCEPT ![c] = "classifying"]
                        /\ abortTimer' =
                              [abortTimer EXCEPT ![c]["classify"] = now + abortTimeout]
                        /\ UNCHANGED returned
                   ELSE /\ isProcessing' = FALSE
                        /\ callState' = [callState EXCEPT ![c] = "done"]
                        /\ stage' = [stage EXCEPT ![c] = "rejected"]
                        /\ returned' = [call |-> c, response |-> catchResponse(
                              analyzeQueryRateLimited(getWaitTime(reqs, now)).message)]
                        /\ UNCHANGED <<userMessage, abortTimer>>
    /\ UNCHANGED <<now, locals, stubs, limiterCall, idle>>

(* The classifier LLM call of call c settles with outcome o: the rest of
   analyzeQuery, the split of the tag, and the switch up to the accessor call
   or, when no accessor is selected, on into generateResponse. *)
classifySettles(c, o) ==
    /\ stage[c] = "classifying"
    /\ LET r == analyzeQuerySettled(Utterances[userMessage[c]], o)
           abt == IF o.kind = "ok"
                  THEN [abortTimer EXCEPT ![c]["classify"] = NoTimer]
                  ELSE abortTimer
       IN  IF r.threw
           THEN /\ runEnds(c, "rejected")
                /\ abortTimer' = abt
                /\ raceSettles(c, "done", catchResponse(r.message))
                /\ UNCHANGED requests
           ELSE LET parts == split(r.queryType, "|")
                    type == Join(parts[1])
                    category == IF Len(parts) >= 2 THEN Join(parts[2]) ELSE Undefined
                    loc == [type |-> type, category |-> category,
                            queryResult |-> NullData, error |-> Null]
                IN  IF accessorFor(type, category) # "none"
                    THEN /\ stage' = [stage EXCEPT ![c] = "querying"]
                         /\ locals' = [locals EXCEPT ![c] = loc]
                         /\ abortTimer' = abt
                         /\ UNCHANGED <<requests, callState, returned, isProcessing,
                                        userMessage>>
                    ELSE generateStart(c, loc, abt)
    /\ UNCHANGED <<now, timeoutTimer, stubs, limiterCall, idle>>

\* variant: no try/catch around the switch, a throwing accessor ends the run
accessorSettlesThrowPropagates(c, o) ==
    /\ stage[c] = "querying"
    /\ o \in AccessorOutcomes(accessorFor(locals[c].type, locals[c].category))
    /\ IF o.kind = "throw"
       THEN /\ runEnds(c, "rejected")
            /\ raceSettles(c, "done", catchResponse("Store unreachable"))
            /\ UNCHANGED <<requests, abortTimer>>
       ELSE LET loc == CASE o.kind = "success" ->
                              [locals[c] EXCEPT !.queryResult = o.data]
                         [] o.kind = "failure" ->
                              [locals[c] EXCEPT !.error = o.error]
            IN  generateStart(c, loc, abortTimer)
    /\ UNCHANGED <<now, timeoutTimer, stubs, limiterCall, idle>>

\* variant: a failed accessor leaves an empty list as the result, with the error
accessorSettlesEmptyListOnFailure(c, o) ==
    /\ stage[c] = "querying"
    /\ o \in AccessorOutcomes(accessorFor(locals[c].type, locals[c].category))
    /\ LET none == [kind |-> "items", items |-> <<>>]
           loc == CASE o.kind = "success" -> [locals[c] EXCEPT !.queryResult = o.data]
                    [] o.kind = "failure" ->
                          [locals[c] EXCEPT !.queryResult = none, !.error = o.error]
                    [] o.kind = "throw" ->
                          [locals[c] EXCEPT !.queryResult = none,
                                            !.error = "Database query failed"]
       IN  generateStart(c, loc, abortTimer)
    /\ UNCHANGED <<now, timeoutTimer, stubs, limiterCall, idle>>

(* The accessor call of call c settles with outcome o; the run goes on into
   generateResponse whatever the outcome. *)
accessorSettles(c, o) ==
    /\ stage[c] = "querying"
    /\ o \in AccessorOutcomes(accessorFor(locals[c].type, locals[c].category))
    /\ LET loc == CASE o.kind = "success" -> [locals[c] EXCEPT !.queryResult = o.data]
                    [] o.kind = "failure" -> [locals[c] EXCEPT !.error = o.error]
                    [] o.kind = "throw" ->
                          [locals[c] EXCEPT !.error = "Database query failed"]
       IN  generateStart(c, loc, abortTimer)
    /\ UNCHANGED <<now, timeoutTimer, stubs, limiterCall, idle>>

\* variant: when the generator fails, the run goes back to query the store again
generateSettlesRequeries(c, o) ==
    /\ stage[c] = "generating"
    /\ IF o.kind = "error" /\ accessorFor(locals[c].type, locals[c].category) # "none"
       THEN /\ stage' = [stage EXCEPT ![c] = "querying"]
            /\ UNCHANGED <<abortTimer, locals, userMessage, callState, returned,
                           isProcessing>>
       ELSE /\ runEnds(c, "resolved")
            /\ abortTimer' = IF o.kind = "ok"
                             THEN [abortTimer EXCEPT ![c]["generate"] = NoTimer]
                             ELSE abortTimer
            /\ raceSettles(c, "done",
                  [message |-> generateResponseSettled(o, locals[c].queryResult,
                                                       locals[c].type),
                   data |-> locals[c].queryResult,
                   error |-> locals[c].error])
    /\ UNCHANGED <<now, requests, timeoutTimer, stubs, limiterCall, idle>>

(* The generator LLM call of call c settles with outcome o: the rest of
   generateResponse and the return of processMessageInternal. *)
generateSettles(c, o) ==
    /\ stage[c] = "generating"
    /\ runEnds(c, "resolved")
    /\ abortTimer' = IF o.kind = "ok"
                     THEN [abortTimer EXCEPT ![c]["generate"] = NoTimer]
                     ELSE abortTimer
    /\ raceSettles(c, "done",
          [message |-> generateResponseSettled(o, locals[c].queryResult, locals[c].type),
           data |-> locals[c].queryResult,
           error |-> locals[c].error])
    /\ UNCHANGED <<now, requests, timeoutTimer, stubs, limiterCall, idle>>

\* variant: processMessage awaits the run alone, the deadline is not raced
timeoutFiresNotRaced(c) ==
    /\ timeoutTimer[c] # NoTimer
    /\ timeoutTimer[c] <= now
    /\ timeoutTimer' = [timeoutTimer EXCEPT ![c] = NoTimer]
    /\ UNCHANGED <<now, requests, isProcessing, callState, userMessage, returned,
                   stage, locals, abortTimer, stubs, limiterCall, idle>>

(* The whole-request timer of call c fires: timeoutPromise rejects. *)
timeoutFires(c) ==
    /\ timeoutTimer[c] # NoTimer
    /\ timeoutTimer[c] <= now
    /\ timeoutTimer' = [timeoutTimer EXCEPT ![c] = NoTimer]
    /\ raceSettles(c, "timedOut", catchResponse("Processing timeout"))
    /\ UNCHANGED <<now, requests, userMessage, stage, locals, abortTimer,
                   stubs, limiterCall, idle>>

(* The 8 s timer of an LLM stage fires: controller.abort().  The controller's
   signal is not handed to the create() call and nothing reads the controller,
   so the call goes on and no state but the timer changes. *)
abortFires(c, s) ==
    /\ abortTimer[c][s] # NoTimer
    /\ abortTimer[c][s] <= now
    /\ abortTimer' = [abortTimer EXCEPT ![c][s] = NoTimer]
    /\ UNCHANGED <<now, requests, isProcessing, callState, userMessage, returned,
                   stage, locals, timeoutTimer, stubs, limiterCall, idle>>

ArmedDues ==
    ({ timeoutTimer[c] : c \in Calls } \cup
     { abortTimer[c][s] : c \in Calls, s \in Stages }) \ {NoTimer}

(* Time passes, up to the next timer that is due: the clock is observed at
   the instants where a timer is due, and calls and responses happen at the
   current instant.  Due timers run before time moves on.  Timers due after
   MaxTime lie beyond the horizon of the model and never fire. *)
Tick ==
    /\ \A t \in ArmedDues : t > now
    /\ \E t \in ArmedDues :
          /\ t <= MaxTime
          /\ \A d \in ArmedDues : t <= d
          /\ now' = t
    /\ UNCHANGED <<requests, isProcessing, callState, userMessage, returned,
                   stage, locals, timeoutTimer, abortTimer, stubs, limiterCall, idle>>

Next ==
    \/ \E c \in Calls, u \in UtteranceIds : processMessage(c, u)
    \/ \E c \in Calls, o \in ClassifyOutcomes : classifySettles(c, o)
    \/ \E c \in Calls, a \in Accessors :
          \E o \in AccessorOutcomes(a) : accessorSettles(c, o)
    \/ \E c \in Calls, o \in GenerateOutcomes : generateSettles(c, o)
    \/ \E c \in Calls : timeoutFires(c)
    \/ \E c \in Calls, s \in Stages : abortFires(c, s)
    \/ Tick

Spec == Init /\ [][Next]_vars

(* Timers fire and time passes: the event loop runs every due timer. *)
FairSpec ==
    /\ Spec
    /\ WF_vars(Tick)
    /\ \A c \in Calls : WF_vars(timeoutFires(c))
    /\ \A c \in Calls, s \in Stages : WF_vars(abortFires(c, s))

-----------------------------------------------------------------------------
(* One processMessage call on a fresh agent with its collaborators stubbed:
   the utterance and the outcome of the classifier call, of the accessor call
   and of the generator call are fixed beforehand.  The actions are those of
   the state machine, for the first call. *)

AllClassifyOutcomes ==
    { [kind |-> "ok", content |-> i] : i \in 0..Len(ClassifierContents) }
    \cup ErrorOutcomes

AllAccessorOutcomes == UNION { AccessorOutcomes(a) : a \in Accessors }

StubbedRuns ==
    [utterance : 1..Len(Utterances), classify : AllClassifyOutcomes,
     accessor : AllAccessorOutcomes, generate : GenerateOutcomes]

StubbedInit ==
    /\ Constructed
    /\ stubs \in StubbedRuns
    /\ limiterCall = NoLimiterCall
    /\ NoDirectCalls

StubbedNext ==
    \/ processMessage(1, stubs.utterance)
    \/ classifySettles(1, stubs.classify)
    \/ accessorSettles(1, stubs.accessor)
    \/ generateSettles(1, stubs.generate)
    \/ timeoutFires(1)
    \/ \E s \in Stages : abortFires(1, s)
    \/ Tick

StubbedSpec == StubbedInit /\ [][StubbedNext]_vars

-----------------------------------------------------------------------------
(* The three RateLimiter classes of the repository, each driven directly
   through its public methods on a fresh instance:
     "CanMakeRequest": canMakeRequest() records the admission itself
                       (the class modelled above, maxRequests 5);
     "CheckLimit":     checkLimit() records the admission itself;
     "RecordRequest":  canMakeRequest() only prunes and answers, the
                       admission is recorded by a separate recordRequest().
   requests is the instance's array and now its Date.now(). *)

LimiterClasses == {"CanMakeRequest", "CheckLimit", "RecordRequest"}

maxRequestsDefault == 10

maxRequestsOf(class) ==
    IF class = "CanMakeRequest" THEN maxRequests ELSE maxRequestsDefault

\* checkLimit(): the value returned, and this.requests afterwards
checkLimit(reqs, t) == Len(filterWindow(reqs, t)) < maxRequestsDefault

checkLimitRequests(reqs, t) ==
    IF Len(filterWindow(reqs, t)) < maxRequestsDefault
    THEN Append(filterWindow(reqs, t), t)
    ELSE filterWindow(reqs, t)

\* canMakeRequest() of the class with recordRequest(): value and array
canMakeRequestUnrecorded(reqs, t) == Len(filterWindow(reqs, t)) < maxRequestsDefault

canMakeRequestUnrecordedRequests(reqs, t) == filterWindow(reqs, t)

recordRequest(reqs, t) == Append(reqs, t)

\* the admission check of a class
admissionCheck(class, reqs, t) ==
    CASE class = "CanMakeRequest" -> canMakeRequest(reqs, t)
      [] class = "CheckLimit" -> checkLimit(reqs, t)
      [] class = "RecordRequest" -> canMakeRequestUnrecorded(reqs, t)

admissionCheckRequests(class, reqs, t) ==
    CASE class = "CanMakeRequest" -> canMakeRequestRequests(reqs, t)
      [] class = "CheckLimit" -> checkLimitRequests(reqs, t)
      [] class = "RecordRequest" -> canMakeRequestUnrecordedRequests(reqs, t)

\* the instants at which the limiter is called
Instants == {0, 1, timeWindow}

\* the last entries of a sequence, at most n of them
LastN(s, n) == IF Len(s) <= n THEN s ELSE SubSeq(s, Len(s) - n + 1, Len(s))

LimiterInit ==
    /\ Constructed
    /\ stubs = NoStubs
    /\ \E class \in LimiterClasses :
          limiterCall = [NoLimiterCall EXCEPT !.class = class]
    /\ NoDirectCalls

(* An admission check.  limiterCall.admitted keeps the instants, less than a
   time window ago, of the checks that were answered true. *)
limiterChecks ==
    LET class == limiterCall.class
        ok == admissionCheck(class, requests, now)
        recent == filterWindow(limiterCall.admitted, now)
    IN  /\ requests' = admissionCheckRequests(class, requests, now)
        /\ limiterCall' =
              [limiterCall EXCEPT
                  !.op = "check", !.at = now, !.ok = ok, !.wait = 0,
                  !.admitted = IF ok
                               THEN LastN(Append(recent, now), maxRequestsOf(class) + 1)
                               ELSE recent]
        /\ UNCHANGED <<now, isProcessing, callState, userMessage, returned, stage,
                       locals, timeoutTimer, abortTimer, stubs, idle>>

\* recordRequest()
limiterRecords ==
    /\ limiterCall.class = "RecordRequest"
    /\ Len(requests) < MaxRecorded
    /\ requests' = recordRequest(requests, now)
    /\ limiterCall' = [limiterCall EXCEPT !.op = "record", !.at = now,
                                          !.ok = FALSE, !.wait = 0]
    /\ UNCHANGED <<now, isProcessing, callState, userMessage, returned, stage,
                   locals, timeoutTimer, abortTimer, stubs, idle>>

\* getWaitTime()
limiterWaits ==
    /\ limiterCall.class \in {"CanMakeRequest", "RecordRequest"}
    /\ limiterCall' = [limiterCall EXCEPT !.op = "wait", !.at = now, !.ok = FALSE,
                                          !.wait = getWaitTime(requests, now)]
    /\ UNCHANGED <<now, requests, isProcessing, callState, userMessage, returned,
                   stage, locals, timeoutTimer, abortTimer, stubs, idle>>

\* time passes between two calls of the limiter
timePasses ==
    /\ \E t \in Instants : t > now /\ now' = t
    /\ UNCHANGED <<requests, isProcessing, callState, userMessage, returned, stage,
                   locals, timeoutTimer, abortTimer, stubs, limiterCall, idle>>

LimiterNext ==
    \/ limiterChecks
    \/ limiterRecords
    \/ limiterWaits
    \/ timePasses

LimiterSpec == LimiterInit /\ [][LimiterNext]_vars

-----------------------------------------------------------------------------
(* A session of processMessage calls on one agent with its collaborators
   stubbed: the user repeats one question and every call of the session meets
   the same classifier, accessor and generator outcome.  The actions are those
   of the state machine. *)

SessionContents == {1, 2, 10}

SessionRuns ==
    [utterance : UtteranceIds,
     classify : { [kind |-> "ok", content |-> i] : i \in SessionContents }
                \cup { o \in ErrorOutcomes : o.status \in {429, 500} },
     accessor : AllAccessorOutcomes,
     generate : GenerateOutcomes]

SessionInit ==
    /\ Constructed
    /\ stubs \in SessionRuns
    /\ limiterCall = NoLimiterCall
    /\ NoDirectCalls

SessionNext ==
    \/ \E c \in Calls : processMessage(c, stubs.utterance)
    \/ \E c \in Calls : classifySettles(c, stubs.classify)
    \/ \E c \in Calls : accessorSettles(c, stubs.accessor)
    \/ \E c \in Calls : generateSettles(c, stubs.generate)
    \/ \E c \in Calls : timeoutFires(c)
    \/ \E c \in Calls, s \in Stages : abortFires(c, s)
    \/ Tick

SessionSpec == SessionInit /\ [][SessionNext]_vars

-----------------------------------------------------------------------------
(* The keyword fallback of analyzeQuery applied directly: the classifier LLM
   is unavailable and the utterance is made of up to MaxKeywords of the
   keywords of the table, in the order of the table or in the reverse order,
   in lower case or in capitals. *)

Keywords ==
    <<kw_cheapest, kw_lowest_price, kw_expensive, kw_highest_price, kw_pending,
      kw_orders, kw_revenue, kw_sales, kw_categories, kw_types, kw_dessert,
      kw_drink, kw_beverage>>

UpperChar(ch) ==
    IF \E i \in 1..Len(LowerCase) : LowerCase[i] = ch
    THEN UpperCase[CHOOSE i \in 1..Len(LowerCase) : LowerCase[i] = ch]
    ELSE ch

toUpperCase(s) == [i \in 1..Len(s) |-> UpperChar(s[i])]

\* the keywords of a set, one after the other, each followed by a blank
RECURSIVE Phrase(_, _)
Phrase(picked, reversed) ==
    IF picked = {} THEN <<>>
    ELSE LET k == CHOOSE x \in picked :
                     \A y \in picked : IF reversed THEN y <= x ELSE x <= y
         IN Keywords[k] \o <<" ">> \o Phrase(picked \ {k}, reversed)

\* the utterance typed by the user
Typed(picked, reversed, capitals) ==
    LET text == <<"S", "h", "o", "w", " ">> \o Phrase(picked, reversed) \o <<"?">>
    IN IF capitals THEN toUpperCase(text) ELSE text

KeywordInit ==
    /\ Constructed
    /\ stubs = NoStubs
    /\ limiterCall = NoLimiterCall
    /\ backendCall = NoBackendCall
    /\ \E picked \in SUBSET (1..Len(Keywords)), reversed \in BOOLEAN,
          capitals \in BOOLEAN :
          /\ Cardinality(picked) <= MaxKeywords
          /\ fallbackCall = [state |-> "asked", picked |-> picked,
                             text |-> Typed(picked, reversed, capitals),
                             tag |-> Undefined]

\* analyzeQuery from the rejection of its LLM call with a server error on
fallbackClassifies ==
    /\ fallbackCall.state = "asked"
    /\ \E o \in ErrorOutcomes :
          /\ o.name = "Error"
          /\ o.status \notin {429, 401}
          /\ LET r == analyzeQuerySettled(fallbackCall.text, o)
             IN  fallbackCall' = [fallbackCall EXCEPT !.state = "classified",
                                                     !.tag = Join(r.queryType)]
    /\ UNCHANGED <<now, requests, isProcessing, callState, userMessage, returned,
                   stage, locals, timeoutTimer, abortTimer, stubs, limiterCall,
                   peerProcessing, backendCall>>

KeywordNext == fallbackClassifies

KeywordSpec == KeywordInit /\ [][KeywordNext]_vars

-----------------------------------------------------------------------------
(* QueryAIBackend.query and its caller handleQueryAI.  A JSON value is a
   record whose kind names its JavaScript type; the body of an HTTP response
   is unparsable, null, or an object with the fields result, sql_query, error. *)

JsUndefined == [kind |-> "undefined"]
JsNull == [kind |-> "null"]
JsString(s) == [kind |-> "string", s |-> s]
JsList(items) == [kind |-> "list", items |-> items]
JsObject == [kind |-> "object"]

\* JavaScript truthiness of a JSON value
truthyJs(v) ==
    /\ v.kind \notin {"undefined", "null"}
    /\ v.kind = "string" => v.s # ""

\* String(v), as new Error(v) takes its message
stringOfJs(v) ==
    CASE v.kind = "string" -> v.s
      [] v.kind = "object" -> "[object Object]"
      [] v.kind = "list" -> IF Len(v.items) = 0 THEN "" ELSE "[object Object]"
      [] OTHER -> v.kind

Bodies ==
    { [kind |-> "unparsable"], [kind |-> "null"] }
    \cup [kind : {"object"},
          result : {JsUndefined, JsNull, JsList(<<>>), JsList(<<JsObject>>),
                    JsString("done"), JsObject},
          sql_query : {JsUndefined, JsString("SELECT 1")},
          error : {JsUndefined, JsString(""), JsString("bad query"), JsObject}]

\* what fetch settles with: a rejection or a response
FetchOutcomes ==
    { [kind |-> "reject", message |-> m] : m \in {"Failed to fetch", ""} }
    \cup { [kind |-> "response", ok |-> TRUE, status |-> 200, body |-> b] :
              b \in Bodies }
    \cup { [kind |-> "response", ok |-> FALSE, status |-> st, body |-> b] :
              st \in {404, 500}, b \in Bodies }

\* the catch block of query
queryCaught(message) ==
    [threw |-> FALSE,
     response |-> [kind |-> "response",
                   result |-> JsList(<<>>),
                   sql_query |-> JsString(""),
                   error |-> JsString(IF message # "" THEN message
                                      ELSE "Failed to connect to QueryAI Backend")]]

\* query from the point where response.json() settles
queryAfterJson(f) ==
    IF ~f.ok THEN
        LET errorData == IF f.body.kind = "unparsable" THEN JsObject ELSE f.body
            error == IF errorData.kind = "object" /\ "error" \in DOMAIN errorData
                     THEN errorData.error ELSE JsUndefined
        IN  IF errorData.kind = "null"
            THEN queryCaught("Cannot read properties of null (reading 'error')")
            ELSE queryCaught(IF truthyJs(error) THEN stringOfJs(error)
                             ELSE "API error: " \o ToString(f.status))
    ELSE IF f.body.kind = "unparsable" THEN
        queryCaught("Unexpected token < in JSON at position 0")
    ELSE IF f.body.kind = "null" THEN
        queryCaught("Cannot read properties of null (reading 'result')")
    ELSE
        [threw |-> FALSE,
         response |-> [kind |-> "response",
                       result |-> IF truthyJs(f.body.result) THEN f.body.result
                                  ELSE JsList(<<>>),
                       sql_query |-> IF truthyJs(f.body.sql_query)
                                     THEN f.body.sql_query ELSE JsString(""),
                       error |-> f.body.error]]

\* handleQueryAI from the point where its await of query settles
handleQueryAIResumes(call, r) ==
    IF r.threw
    THEN [call EXCEPT !.state = "shown", !.threw = TRUE,
                      !.error = JsString("Failed to connect to QueryAI Backend"),
                      !.processingQueryAI = FALSE]
    ELSE [call EXCEPT !.state = "shown",
                      !.queryAIResult = r.response,
                      !.error = IF truthyJs(r.response.error)
                                THEN r.response.error ELSE call.error,
                      !.processingQueryAI = FALSE]

QueryInit ==
    /\ Constructed
    /\ stubs = NoStubs
    /\ limiterCall = NoLimiterCall
    /\ fallbackCall = NoFallbackCall
    /\ \E f \in FetchOutcomes :
          backendCall = [state |-> "idle", fetch |-> f, threw |-> FALSE,
                         processingQueryAI |-> FALSE, error |-> JsString(""),
                         queryAIResult |-> JsNull]

\* the form is submitted: handleQueryAI up to the fetch of query
handleQueryAI ==
    /\ backendCall.state = "idle"
    /\ ~backendCall.processingQueryAI
    /\ backendCall' = [backendCall EXCEPT !.state = "fetching",
                                          !.processingQueryAI = TRUE,
                                          !.error = JsString(""),
                                          !.queryAIResult = JsNull]
    /\ UNCHANGED <<now, requests, isProcessing, callState, userMessage, returned,
                   stage, locals, timeoutTimer, abortTimer, stubs, limiterCall,
                   peerProcessing, fallbackCall>>

\* fetch settles
fetchSettles ==
    /\ backendCall.state = "fetching"
    /\ backendCall' =
          IF backendCall.fetch.kind = "reject"
          THEN handleQueryAIResumes(backendCall, queryCaught(backendCall.fetch.message))
          ELSE [backendCall EXCEPT !.state = "parsing"]
    /\ UNCHANGED <<now, requests, isProcessing, callState, userMessage, returned,
                   stage, locals, timeoutTimer, abortTimer, stubs, limiterCall,
                   peerProcessing, fallbackCall>>

\* response.json() settles
jsonSettles ==
    /\ backendCall.state = "parsing"
    /\ backendCall' = handleQueryAIResumes(backendCall, queryAfterJson(backendCall.fetch))
    /\ UNCHANGED <<now, requests, isProcessing, callState, userMessage, returned,
                   stage, locals, timeoutTimer, abortTimer, stubs, limiterCall,
                   peerProcessing, fallbackCall>>

QueryNext ==
    \/ handleQueryAI
    \/ fetchSettles
    \/ jsonSettles

QuerySpec == QueryInit /\ [][QueryNext]_vars

-----------------------------------------------------------------------------
(* Two AIAgent objects in one page.  isProcessing is a field of the object
   (aiAgent.ts:12), while rateLimiter is one object of the module
   (export const rateLimiter = new RateLimiter()) that every AIAgent calls.
   The first agent makes the calls before PeerCall as above; the second agent
   makes the call PeerCall: the same code, run on its own isProcessing. *)

PeerCall == MaxCalls

\* Promise.race of the second agent's call settles
peerRaceSettles(c, how, resp) ==
    IF callState[c] = "racing"
    THEN /\ callState' = [callState EXCEPT ![c] = how]
         /\ returned' = [call |-> c, response |-> resp]
         /\ peerProcessing' = FALSE
    ELSE UNCHANGED <<callState, returned, peerProcessing>>

\* the second agent's run from its call of generateResponse on
peerGenerateStart(c, loc, abt) ==
    LET admitted == canMakeRequest(requests, now)
        reqs == canMakeRequestRequests(requests, now)
    IN  /\ requests' = reqs
        /\ IF admitted
           THEN /\ stage' = [stage EXCEPT ![c] = "generating"]
                /\ locals' = [locals EXCEPT ![c] = loc]
                /\ abortTimer' = [abt EXCEPT ![c]["generate"] = now + abortTimeout]
                /\ UNCHANGED <<callState, returned, peerProcessing, userMessage>>
           ELSE /\ runEnds(c, "resolved")
                /\ abortTimer' = abt
                /\ peerRaceSettles(c, "done",
                      [message |-> generateResponseRateLimited(getWaitTime(reqs, now)),
                       data |-> loc.queryResult,
                       error |-> loc.error])

\* processMessage(userMessage) is called on the second agent
peerProcessMessage(c, u) ==
    /\ callState[c] = "new"
    /\ \A d \in Calls : d < c => callState[d] # "new"
    /\ IF peerProcessing
       THEN /\ callState' = [callState EXCEPT ![c] = "busy"]
            /\ returned' = [call |-> c, response |-> AlreadyProcessingResponse]
            /\ UNCHANGED <<peerProcessing, requests, userMessage, stage,
                           timeoutTimer, abortTimer>>
       ELSE LET admitted == canMakeRequest(requests, now)
                reqs == canMakeRequestRequests(requests, now)
            IN  /\ requests' = reqs
                /\ timeoutTimer' = [timeoutTimer EXCEPT ![c] = now + processingTimeout]
                /\ IF admitted
                   THEN /\ peerProcessing' = TRUE
                        /\ callState' = [callState EXCEPT ![c] = "racing"]
                        /\ userMessage' = [userMessage EXCEPT ![c] = u]
                        /\ stage' = [stage EXCEPT ![c] = "classifying"]
                        /\ abortTimer' =
                              [abortTimer EXCEPT ![c]["classify"] = now + abortTimeout]
                        /\ UNCHANGED returned
                   ELSE /\ peerProcessing' = FALSE
                        /\ callState' = [callState EXCEPT ![c] = "done"]
                        /\ stage' = [stage EXCEPT ![c] = "rejected"]
                        /\ returned' = [call |-> c, response |-> catchResponse(
                              analyzeQueryRateLimited(getWaitTime(reqs, now)).message)]
                        /\ UNCHANGED <<userMessage, abortTimer>>
    /\ UNCHANGED <<now, locals, stubs, limiterCall, isProcessing, fallbackCall,
                   backendCall>>

\* the classifier LLM call of the second agent's call settles
peerClassifySettles(c, o) ==
    /\ stage[c] = "classifying"
    /\ LET r == analyzeQuerySettled(Utterances[userMessage[c]], o)
           abt == IF o.kind = "ok"
                  THEN [abortTimer EXCEPT ![c]["classify"] = NoTimer]
                  ELSE abortTimer
       IN  IF r.threw
           THEN /\ runEnds(c, "rejected")
                /\ abortTimer' = abt
                /\ peerRaceSettles(c, "done", catchResponse(r.message))
                /\ UNCHANGED requests
           ELSE LET parts == split(r.queryType, "|")
                    type == Join(parts[1])
                    category == IF Len(parts) >= 2 THEN Join(parts[2]) ELSE Undefined
                    loc == [type |-> type, category |-> category,
                            queryResult |-> NullData, error |-> Null]
                IN  IF accessorFor(type, category) # "none"
                    THEN /\ stage' = [stage EXCEPT ![c] = "querying"]
                         /\ locals' = [locals EXCEPT ![c] = loc]
                         /\ abortTimer' = abt
                         /\ UNCHANGED <<requests, callState, returned, peerProcessing,
                                        userMessage>>
                    ELSE peerGenerateStart(c, loc, abt)
    /\ UNCHANGED <<now, timeoutTimer, stubs, limiterCall, isProcessing, fallbackCall,
                   backendCall>>

\* the accessor call of the second agent's call settles
peerAccessorSettles(c, o) ==
    /\ stage[c] = "querying"
    /\ o \in AccessorOutcomes(accessorFor(locals[c].type, locals[c].category))
    /\ LET loc == CASE o.kind = "success" -> [locals[c] EXCEPT !.queryResult = o.data]
                    [] o.kind = "failure" -> [locals[c] EXCEPT !.error = o.error]
                    [] o.kind = "throw" ->
                          [locals[c] EXCEPT !.error = "Database query failed"]
       IN  peerGenerateStart(c, loc, abortTimer)
    /\ UNCHANGED <<now, timeoutTimer, stubs, limiterCall, isProcessing, fallbackCall,
                   backendCall>>

\* the generator LLM call of the second agent's call settles
peerGenerateSettles(c, o) ==
    /\ stage[c] = "generating"
    /\ runEnds(c, "resolved")
    /\ abortTimer' = IF o.kind = "ok"
                     THEN [abortTimer EXCEPT ![c]["generate"] = NoTimer]
                     ELSE abortTimer
    /\ peerRaceSettles(c, "done",
          [message |-> generateResponseSettled(o, locals[c].queryResult, locals[c].type),
           data |-> locals[c].queryResult,
           error |-> locals[c].error])
    /\ UNCHANGED <<now, requests, timeoutTimer, stubs, limiterCall, isProcessing,
                   fallbackCall, backendCall>>

\* the whole-request timer of the second agent's call fires
peerTimeoutFires(c) ==
    /\ timeoutTimer[c] # NoTimer
    /\ timeoutTimer[c] <= now
    /\ timeoutTimer' = [timeoutTimer EXCEPT ![c] = NoTimer]
    /\ peerRaceSettles(c, "timedOut", catchResponse("Processing timeout"))
    /\ UNCHANGED <<now, requests, userMessage, stage, locals, abortTimer,
                   stubs, limiterCall, isProcessing, fallbackCall, backendCall>>

InstancesInit == Init

InstancesNext ==
    \/ \E c \in Calls \ {PeerCall}, u \in UtteranceIds : processMessage(c, u)
    \/ \E c \in Calls \ {PeerCall}, o \in ClassifyOutcomes : classifySettles(c, o)
    \/ \E c \in Calls \ {PeerCall}, a \in Accessors :
          \E o \in AccessorOutcomes(a) : accessorSettles(c, o)
    \/ \E c \in Calls \ {PeerCall}, o \in GenerateOutcomes : generateSettles(c, o)
    \/ \E c \in Calls \ {PeerCall} : timeoutFires(c)
    \/ \E u \in UtteranceIds : peerProcessMessage(PeerCall, u)
    \/ \E o \in ClassifyOutcomes : peerClassifySettles(PeerCall, o)
    \/ \E a \in Accessors :
          \E o \in AccessorOutcomes(a) : peerAccessorSettles(PeerCall, o)
    \/ \E o \in GenerateOutcomes : peerGenerateSettles(PeerCall, o)
    \/ peerTimeoutFires(PeerCall)
    \/ \E c \in Calls, s \in Stages : abortFires(c, s)
    \/ Tick

InstancesSpec == InstancesInit /\ [][InstancesNext]_vars

-----------------------------------------------------------------------------
(* Properties *)

InFlight == {"classifying", "querying", "generating"}

\* call c is entered in this step
Called(c) == callState[c] = "new" /\ callState'[c] # "new"

\* an external call (LLM or accessor) is issued on behalf of call c in this step
Issues(c) == stage'[c] # stage[c] /\ stage'[c] \in InFlight

(* C1: a processMessage call made while an earlier call on the instance has
   not returned comes back at once with the error tag "Already processing",
   and no limiter admission, LLM call or accessor call is made for it. *)
C1_SecondCallRejected ==
    [][\A c \in Calls :
          (Called(c) /\ \E d \in Calls : callState[d] = "racing") =>
              /\ callState'[c] = "busy"
              /\ returned'.call = c
              /\ returned'.response.error = "Already processing"
              /\ stage'[c] = "none"
              /\ \A d \in Calls : ~Issues(d)
              /\ UNCHANGED <<requests, timeoutTimer, abortTimer>>]_vars

C1_Witness ==
    /\ callState[1] = "racing"
    /\ stage[1] = "querying"
    /\ callState[2] = "busy"
    /\ returned.call = 2

(* C2: the classify/query/generate stages of two different calls are never
   in flight at the same moment. *)
C2_NoInterleaving ==
    Cardinality({c \in Calls : stage[c] \in InFlight}) <= 1

(* C3: a call that set the guard leaves it clear when it returns, whichever
   way it returns; the guard is set only while some call still awaits its
   result, so the next call after a return is not turned away. *)
C3_GuardClearOnReturn ==
    /\ [](isProcessing => \E c \in Calls : callState[c] = "racing")
    /\ [][\A c \in Calls :
             (callState[c] = "racing" /\ callState'[c] # "racing") =>
                 ~isProcessing']_vars

C3_Witness ==
    /\ callState[1] = "timedOut"
    /\ callState[2] = "done"
    /\ callState[3] = "racing"

(* C4: a call turned away by the guard leaves the guard as it was, that is
   set. *)
C4_RejectionKeepsGuard ==
    [][\A c \in Calls :
          (Called(c) /\ callState'[c] = "busy") =>
              (isProcessing /\ isProcessing')]_vars

C4_Witness ==
    /\ callState[1] = "racing"
    /\ callState[2] = "busy"
    /\ callState[3] = "busy"
    /\ isProcessing

(* C5: when the deadline timer of a call fires while the call still awaits
   its run, the call returns exactly the timeout response. *)
C5_TimeoutResponseExact ==
    [][\A c \in Calls :
          (/\ callState[c] = "racing"
           /\ timeoutTimer[c] # NoTimer
           /\ timeoutTimer'[c] = NoTimer) =>
              /\ callState'[c] = "timedOut"
              /\ returned' =
                    [call |-> c,
                     response |->
                        [message |-> "Sorry, that took too long to process. Please try a simpler question.",
                         data |-> UndefinedData,
                         error |-> "Timeout"]]]_vars

C5_Witness ==
    /\ callState[1] = "timedOut"
    /\ returned.call = 1
    /\ stage[1] = "generating"

(* C6: a call awaiting its run returns once its deadline timer fires, even if
   an LLM call or an accessor call never settles. *)
C6_EveryCallReturns ==
    \A c \in Calls :
        (callState[c] = "racing" /\ timeoutTimer[c] <= MaxTime)
            ~> (callState[c] # "racing")

C6_Witness ==
    /\ callState[1] = "timedOut"
    /\ stage[1] = "classifying"
    /\ returned.call = 1

(* C7: after a call has returned the Timeout response, no further LLM call or
   accessor call is issued on its behalf. *)
C7_NoCallsAfterTimeout ==
    [][\A c \in Calls : callState[c] = "timedOut" => ~Issues(c)]_vars

(* C8: every return of processMessage carries a structured response whose
   message is a non-empty string. *)
C8_MessageNonEmpty ==
    returned.call # 0 =>
        /\ returned.response.message \notin {Null, Undefined, ""}
        /\ Len(returned.response.message) > 0

C8_Witness ==
    /\ returned.call # 0
    /\ returned.response.message =
          "I apologize, but I encountered an error processing your request."

(* C9: analyzeQuery never throws: no run ever ends rejected. *)
C9_ClassifierNeverThrows ==
    \A c \in Calls : stage[c] # "rejected"

(* C10: a classifier LLM call that does not respond is cut off by its own
   8 s timer, so no call gets the Timeout response while its classifier call
   is still the one pending. *)
C10_PerCallTimeoutRecovers ==
    \A c \in Calls : ~(callState[c] = "timedOut" /\ stage[c] = "classifying")

-----------------------------------------------------------------------------
(* Properties of a stubbed run (StubbedSpec) *)

\* kinds of failure of an LLM call
Transient(o) ==
    o.kind = "error" /\ (o.name = "AbortError" \/ o.status \in {429, 500})
Unavailable(o) == o.kind = "error" /\ o.name = "Error" /\ o.status = 500
RateLimitedOrAborted(o) ==
    o.kind = "error" /\ (o.name = "AbortError" \/ o.status = 429)

\* the classifier call answered with one of ClassifierContents
Answered(i) == stubs.classify = [kind |-> "ok", content |-> i]

\* the accessor call succeeded with data d
Succeeded(d) == stubs.accessor = [kind |-> "success", data |-> d]

(* C11: a transient failure (abort/timeout, HTTP 429, HTTP 5xx) of the
   classifier call, or of the generator call once a tag was obtained, never
   gives the call the error tag "Processing error". *)
C11_TransientNeverFatal ==
    (/\ returned.call = 1
     /\ \/ Transient(stubs.classify)
        \/ /\ stubs.classify.kind = "ok"
           /\ Transient(stubs.generate))
        => returned.response.error # "Processing error"

\* the canonical utterance of each intent (index in Utterances), sample data
\* of its accessor, and the documented template filled from that data
EndToEndCases ==
    { [utterance |-> 1,
       data |-> [kind |-> "item", name |-> "Tea", price |-> 2, category |-> "drink"],
       message |-> "The cheapest item on our menu is Tea priced at $2 in the drink category."],
      [utterance |-> 7,
       data |-> [kind |-> "item", name |-> "Steak", price |-> 30, category |-> "main"],
       message |-> "The most expensive item is Steak at $30 in the main category."],
      [utterance |-> 3,
       data |-> [kind |-> "items", items |-> <<[name |-> "Cake", price |-> 6],
                                               [name |-> "Pie", price |-> 5]>>],
       message |-> "Here are the items in that category: Cake ($6), Pie ($5)."],
      [utterance |-> 3,
       data |-> [kind |-> "items", items |-> <<[name |-> "Cake", price |-> 6]>>],
       message |-> "Here are the items in that category: Cake ($6)."],
      [utterance |-> 5,
       data |-> [kind |-> "count", count |-> 3],
       message |-> "There are currently 3 pending orders."],
      [utterance |-> 4,
       data |-> [kind |-> "revenue", cents |-> 24550, orderCount |-> 12],
       message |-> "Today's revenue is $245.50 from 12 completed orders."],
      [utterance |-> 6,
       data |-> [kind |-> "names", names |-> <<"dessert", "drink">>],
       message |-> "Our menu categories include: dessert, drink."] }

(* C12: with the classifier's and the generator's LLM calls both unavailable
   (failing with a server error) and the accessor succeeding with data d, the
   call on the canonical utterance of an intent returns the intent's template
   filled from d as message, d as data and no error. *)
C12_EndToEndTemplate ==
    \A e \in EndToEndCases :
        (/\ callState[1] = "done"
         /\ stubs.utterance = e.utterance
         /\ Unavailable(stubs.classify)
         /\ Succeeded(e.data)
         /\ Unavailable(stubs.generate))
            => returned.response =
                  [message |-> e.message, data |-> e.data, error |-> Null]

C12_Witness ==
    /\ callState[1] = "done"
    /\ stubs.utterance = 4
    /\ Unavailable(stubs.classify)
    /\ Unavailable(stubs.generate)
    /\ returned.response.message =
          "Today's revenue is $245.50 from 12 completed orders."

\* the tag expected for the canonical utterance of each intent, split at "|"
CanonicalTags ==
    { [utterance |-> 1, type |-> "cheapest_item", category |-> Undefined],
      [utterance |-> 7, type |-> "expensive_item", category |-> Undefined],
      [utterance |-> 3, type |-> "category_items", category |-> "dessert"],
      [utterance |-> 5, type |-> "pending_orders", category |-> Undefined],
      [utterance |-> 4, type |-> "revenue", category |-> Undefined],
      [utterance |-> 6, type |-> "categories", category |-> Undefined] }

(* C13: when the classifier's LLM call fails and the keyword table is
   consulted, the canonical utterance of each of the six intents gets its
   expected tag: the run goes on with that type and argument. *)
C13_KeywordFallbackTags ==
    \A e \in CanonicalTags :
        (/\ stubs.utterance = e.utterance
         /\ Unavailable(stubs.classify)
         /\ stage[1] \in {"querying", "generating"})
            => /\ locals[1].type = e.type
               /\ locals[1].category = e.category

C13_Witness ==
    /\ stubs.utterance = 3
    /\ Unavailable(stubs.classify)
    /\ stage[1] = "querying"
    /\ locals[1].type = "category_items"
    /\ locals[1].category = "dessert"

\* a tag the classifier's LLM call may answer (index in ClassifierContents),
\* sample data of its accessor, and the documented template filled from it
TemplateCases ==
    { [content |-> 6,
       data |-> [kind |-> "item", name |-> "Tea", price |-> 2, category |-> "drink"],
       message |-> "The cheapest item on our menu is Tea priced at $2 in the drink category."],
      [content |-> 7,
       data |-> [kind |-> "item", name |-> "Steak", price |-> 30, category |-> "main"],
       message |-> "The most expensive item is Steak at $30 in the main category."],
      [content |-> 2,
       data |-> [kind |-> "items", items |-> <<[name |-> "Cake", price |-> 6],
                                               [name |-> "Pie", price |-> 5]>>],
       message |-> "Here are the items in that category: Cake ($6), Pie ($5)."],
      [content |-> 4,
       data |-> [kind |-> "count", count |-> 3],
       message |-> "There are currently 3 pending orders."],
      [content |-> 1,
       data |-> [kind |-> "revenue", cents |-> 24550, orderCount |-> 12],
       message |-> "Today's revenue is $245.50 from 12 completed orders."],
      [content |-> 8,
       data |-> [kind |-> "names", names |-> <<"dessert", "drink">>],
       message |-> "Our menu categories include: dessert, drink."] }

(* C14, as stated: for every intent with a query result, whatever the kind
   of failure of the generator's LLM call, the message is the intent's
   template filled from the result. *)
C14_AnyFailureTemplate ==
    \A e \in TemplateCases :
        (/\ callState[1] = "done"
         /\ Answered(e.content)
         /\ Succeeded(e.data)
         /\ stubs.generate.kind = "error")
            => returned.response.message = e.message

(* C14, amended: for every intent with a query result, when the generator's
   LLM call fails with an error that is neither an abort nor an HTTP 429, the
   message is the intent's template filled from the result. *)
C14_OtherFailureTemplate ==
    \A e \in TemplateCases :
        (/\ callState[1] = "done"
         /\ Answered(e.content)
         /\ Succeeded(e.data)
         /\ stubs.generate.kind = "error"
         /\ ~RateLimitedOrAborted(stubs.generate))
            => returned.response.message = e.message

C14_Witness ==
    /\ callState[1] = "done"
    /\ Answered(6)
    /\ stubs.generate = [kind |-> "error", name |-> "Error", status |-> 401]
    /\ returned.response.message =
          "The cheapest item on our menu is Tea priced at $2 in the drink category."

(* C15: for category_items with the accessor returning the empty list and
   the generator's LLM call failing into the templates, the message is
   exactly "No items found in that category." and the data is the empty
   list. *)
C15_EmptyCategory ==
    (/\ callState[1] = "done"
     /\ \/ Answered(2)
        \/ stubs.utterance = 3 /\ Unavailable(stubs.classify)
     /\ Succeeded([kind |-> "items", items |-> <<>>])
     /\ stubs.generate.kind = "error"
     /\ ~RateLimitedOrAborted(stubs.generate))
        => returned.response =
              [message |-> "No items found in that category.",
               data |-> [kind |-> "items", items |-> <<>>],
               error |-> Null]

C15_Witness ==
    /\ callState[1] = "done"
    /\ Answered(2)
    /\ Succeeded([kind |-> "items", items |-> <<>>])
    /\ Unavailable(stubs.generate)
    /\ returned.response.message = "No items found in that category."

\* the answers of the classifier that select an accessor (ClassifierContents)
AccessorContents == {1, 2, 4, 6, 7, 8}

\* the error a failing accessor leaves in the run
AccessorError(o) ==
    IF o.kind = "throw" THEN "Database query failed" ELSE o.error

(* C19: when the accessor an intent selects fails, by a returned error or by
   a thrown exception, the run still goes through the generator and the call
   returns the generator's message, no data, and the accessor's error
   ("Database query failed" for a thrown exception), not "Processing error". *)
C19_AccessorFailureDegrades ==
    (/\ callState[1] = "done"
     /\ stubs.classify.kind = "ok"
     /\ stubs.classify.content \in AccessorContents
     /\ stubs.accessor.kind \in {"failure", "throw"})
        => /\ stage[1] = "resolved"
           /\ returned.response.error = AccessorError(stubs.accessor)
           /\ returned.response.error # "Processing error"
           /\ returned.response.data = NullData
           /\ returned.response.message \notin {Null, Undefined, ""}
           /\ stubs.generate = [kind |-> "ok", text |-> "Here is what I found."]
                 => returned.response.message = "Here is what I found."

C19_Witness ==
    /\ callState[1] = "done"
    /\ Answered(6)
    /\ stubs.accessor.kind = "throw"
    /\ returned.response.error = "Database query failed"
    /\ returned.response.message = "Here is what I found."

(* C20: when the classifier answers category_items with no usable argument
   (bare, or with an empty argument), the store is not called, the run does
   not fail, the data of the response is the empty list and, with the
   generator's LLM call unavailable, the message is the empty-category one. *)
C20_NoArgumentEmptyList ==
    (Answered(5) \/ Answered(9))
        => /\ stage[1] \notin {"querying", "rejected"}
           /\ callState[1] = "done" =>
                 /\ returned.response.data = [kind |-> "items", items |-> <<>>]
                 /\ returned.response.error = Null
                 /\ Unavailable(stubs.generate) =>
                       returned.response.message = "No items found in that category."

-----------------------------------------------------------------------------
(* Properties of the rate limiters (LimiterSpec) *)

(* C16: in any interval shorter than the time window at most maxRequests
   admission checks are answered true: once maxRequests checks have been
   admitted within a window, the next check in it is refused. *)
C16_AtMostMaxAdmitted ==
    limiterCall.class \in LimiterClasses =>
        Len(filterWindow(limiterCall.admitted, now))
            <= maxRequestsOf(limiterCall.class)

(* C17: when the last admission check was refused, a check made once the
   oldest recorded timestamp is at least one time window old is answered
   true. *)
C17_AdmitsAgainAfterExpiry ==
    [][(/\ limiterCall.op = "check"
        /\ ~limiterCall.ok
        /\ limiterCall'.op = "check"
        /\ limiterCall'.at = now
        /\ now' = now
        /\ requests # <<>>
        /\ now - MinOf(requests) >= timeWindow)
            => limiterCall'.ok]_vars

(* C18: getWaitTime returns 0 whenever an admission check at the same
   instant would be answered true. *)
C18_NoWaitWhenAdmissible ==
    (/\ limiterCall.op = "wait"
     /\ limiterCall.at = now
     /\ admissionCheck(limiterCall.class, requests, now))
        => limiterCall.wait = 0

(* C25: whatever sequence of admission checks, recordRequest and getWaitTime
   calls is made, at non-decreasing times, the array of recorded timestamps
   never holds more than maxRequests entries. *)
C25_WindowBounded ==
    limiterCall.class \in LimiterClasses =>
        Len(requests) <= maxRequestsOf(limiterCall.class)

(* C26: an admission check appends its timestamp to the pruned window if and
   only if it answers true; a check that answers false leaves exactly the
   pruned window. *)
C26_RecordsIffAdmitted ==
    [][(/\ limiterCall'.op = "check"
        /\ limiterCall'.at = now
        /\ now' = now)
            => requests' = IF limiterCall'.ok
                           THEN Append(filterWindow(requests, now), now)
                           ELSE filterWindow(requests, now)]_vars

\* the answers of the two admission checks of the agent when the limiter refuses
LocallyRateLimited(message) ==
    \E seconds \in 0..(timeWindow \div 1000) :
        \/ message = analyzeQueryRateLimited(seconds * 1000).message
        \/ message = generateResponseRateLimited(seconds * 1000)

(* C21: a processMessage call on a second agent instance is never turned
   away by the guard and never answered with a rate-limit refusal of the local
   limiter because of the calls made on the first instance: one instance by
   itself makes two admission checks per call, well below maxRequests. *)
C21_PeerUnaffected ==
    returned.call = PeerCall =>
        /\ returned.response.error # "Already processing"
        /\ ~LocallyRateLimited(returned.response.message)

\* the message of generateResponse for an upstream HTTP 429
HighDemandMessage ==
    "I'm currently experiencing high demand. Please wait a moment and try again."

\* the other fixed answers of generateResponse: the apologies and the templates
OrdinaryFailureMessages ==
    { "I apologize, but I encountered an error processing your request.",
      "I apologize, but I encountered an error processing your request. Please try again with a simpler question.",
      "No items found in that category.",
      "I found some information but had trouble formatting the response. Please try asking again." }
    \cup { t.message : t \in TemplateCases }
    \cup { t.message : t \in EndToEndCases }

\* the data the stubbed accessor hands to a run that called it
SessionData ==
    IF stubs.accessor.kind = "success" THEN stubs.accessor.data ELSE NullData

(* C22: when the generator's LLM call is answered with HTTP 429, or the local
   limiter refuses the generator's admission check, the call returns normally
   (no "Processing error", "Timeout" or "Already processing") with a dedicated
   rate-limit message that is neither the generic apology nor a template, and
   with the data the accessor delivered still attached. *)
C22_RateLimitedGeneratorMessage ==
    [][\A c \in Calls :
          (/\ callState[c] = "racing"
           /\ callState'[c] = "done"
           /\ stage'[c] = "resolved"
           /\ \/ stage[c] \in {"classifying", "querying"}
              \/ stage[c] = "generating" /\ stubs.generate.kind = "error"
                                         /\ stubs.generate.name = "Error"
                                         /\ stubs.generate.status = 429)
              => /\ returned'.call = c
                 /\ IF stage[c] = "generating"
                    THEN returned'.response.message = HighDemandMessage
                    ELSE \E seconds \in 0..(timeWindow \div 1000) :
                            returned'.response.message =
                                "I'm currently rate limited. Please wait "
                                \o ToString(seconds)
                                \o " seconds before asking another question."
                 /\ returned'.response.message \notin OrdinaryFailureMessages
                 /\ returned'.response.data =
                        CASE stage[c] = "classifying" -> NullData
                          [] stage[c] = "querying" -> SessionData
                          [] stage[c] = "generating" ->
                                IF accessorFor(locals[c].type, locals[c].category) # "none"
                                THEN SessionData ELSE NullData
                 /\ returned'.response.error
                        \notin {"Processing error", "Timeout", "Already processing"}]_vars

\* the third call of a session is refused by the limiter at its generator
\* stage after the first met HTTP 429 there, and returns the accessor's data
C22_Witness ==
    /\ stubs.generate.kind = "error"
    /\ stubs.generate.status = 429
    /\ stubs.accessor.kind = "success"
    /\ callState[1] = "done"
    /\ stage[1] = "resolved"
    /\ returned.call = 3
    /\ returned.response.message =
          "I'm currently rate limited. Please wait 60 seconds before asking another question."
    /\ returned.response.data = stubs.accessor.data
    /\ returned.response.data.kind # "null"

\* a response field that holds a value
HasData(d) == d.kind \notin {"null", "undefined"}
HasError(e) == e \notin {Null, Undefined}

(* C29: in the response of a completed run, data is present only if the
   accessor succeeded (it is the accessor's data, and error is empty), and
   error is present only if the accessor failed (it is the accessor's error,
   and data is empty); the "Already processing", "Timeout" and "Processing
   error" responses carry no data. *)
C29_DataErrorExclusive ==
    LET c == returned.call
        r == returned.response
    IN  c # 0 =>
          /\ (callState[c] = "done" /\ stage[c] = "resolved") =>
                /\ ~(HasData(r.data) /\ HasError(r.error))
                /\ HasData(r.data) =>
                      /\ stubs.accessor.kind = "success"
                      /\ r.data = stubs.accessor.data
                /\ HasError(r.error) =>
                      /\ stubs.accessor.kind \in {"failure", "throw"}
                      /\ r.error = AccessorError(stubs.accessor)
          /\ r.error \in {"Already processing", "Timeout", "Processing error"} =>
                ~HasData(r.data)

\* after a first call that timed out, a second call completes with data
C29_Witness ==
    /\ callState[1] = "timedOut"
    /\ returned.call = 2
    /\ callState[2] = "done"
    /\ stage[2] = "resolved"
    /\ HasData(returned.response.data)
    /\ ~HasError(returned.response.error)

\* classifier answers whose type is none of the six accessor tags (indexes in
\* ClassifierContents; 0: a completion without content): no content, free
\* text, "general", the empty string
UnqueriedContents == {0, 3, 10, 11}

\* what the generator answers when it is given no query result
UnqueriedAnswer(o) ==
    CASE o.kind = "ok" /\ o.text # Null -> o.text
      [] o.kind = "ok" /\ o.text = Null ->
            "I apologize, but I encountered an error processing your request."
      [] o.kind = "error" /\ o.name = "AbortError" ->
            "Request timed out. Please try a simpler question."
      [] o.kind = "error" /\ o.name # "AbortError" /\ o.status = 429 ->
            HighDemandMessage
      [] OTHER ->
            "I apologize, but I encountered an error processing your request. Please try again with a simpler question."

(* C24: when the classifier's answer has a type that is none of the six
   accessor tags ("general", free text of the LLM, nothing at all), no
   accessor is called, the generator works without a query result (on failure
   it has no template to fill), and the response has data null and error
   null; free text gets exactly what "general" gets. *)
C24_UnknownTypeIsGeneral ==
    (/\ stubs.classify.kind = "ok"
     /\ stubs.classify.content \in UnqueriedContents)
        => /\ stage[1] # "querying"
           /\ callState[1] = "done" =>
                 /\ stage[1] = "resolved"
                 /\ returned.response.message = UnqueriedAnswer(stubs.generate)
                 /\ returned.response.data = NullData
                 /\ returned.response.error = Null

\* free text from the classifier, the generator unavailable: the apology
C24_Witness ==
    /\ Answered(3)
    /\ Unavailable(stubs.generate)
    /\ callState[1] = "done"
    /\ stage[1] = "resolved"
    /\ returned.response.data = NullData
    /\ returned.response.error = Null

(* The order of the stages of one run: classification first (it may throw and
   end the run), then the accessor if the tag selects one, then
   generateResponse, whose early rate-limit answer ends the run without an LLM
   call. *)
StageOrder ==
    { <<"none", "classifying">>, <<"none", "rejected">>,
      <<"classifying", "rejected">>,
      <<"classifying", "querying">>, <<"classifying", "generating">>,
      <<"classifying", "resolved">>,
      <<"querying", "generating">>, <<"querying", "resolved">>,
      <<"generating", "resolved">> }

(* C23: within one call the stages run in the order classify, at most one
   accessor call, one generate call: the accessor is called only when the
   classification has returned, the generator only when the classification
   and, if there is one, the accessor call have returned, no stage is entered
   a second time, and a run that returns a response has gone through
   generateResponse. *)
C23_StagesInOrder ==
    [][\A c \in Calls :
          /\ stage'[c] # stage[c] => <<stage[c], stage'[c]>> \in StageOrder
          /\ (stage[c] = "classifying" /\ stage'[c] \in {"querying", "generating"})
                => locals'[c].type # Undefined
          /\ (stage[c] = "querying" /\ stage'[c] # "querying")
                => \/ HasData(locals'[c].queryResult)
                   \/ HasError(locals'[c].error)
                   \/ stage'[c] = "resolved"]_vars

\* a run has gone through classification, the accessor and the generator
C23_Witness ==
    /\ callState[1] = "done"
    /\ stage[1] = "resolved"
    /\ returned.call = 1
    /\ HasData(returned.response.data)
    /\ returned.response.message = "Here is what I found."

(* C28: when the run of a call that has returned Timeout ends later, by a
   response or by an exception, no call returns in that step, the response
   last returned and the state of every call stay as they are, and the guard
   keeps its value, so a later call in flight keeps holding it; and a
   whole-request timer that fires when its call is no longer awaiting the
   race changes neither the guard nor any response. *)
C28_LateSettlementIgnored ==
    [][\A a \in Calls :
          /\ (/\ callState[a] = "timedOut"
              /\ stage[a] \in InFlight
              /\ stage'[a] \in {"resolved", "rejected"})
                => /\ UNCHANGED <<isProcessing, returned, callState>>
                   /\ (\E b \in Calls : callState[b] = "racing") => isProcessing'
          /\ (/\ timeoutTimer[a] # NoTimer
              /\ timeoutTimer'[a] = NoTimer
              /\ callState[a] # "racing")
                => UNCHANGED <<isProcessing, returned, callState>>]_vars

\* the run of the timed-out first call has ended while the second call is in
\* flight and holds the guard
C28_Witness ==
    /\ callState[1] = "timedOut"
    /\ stage[1] \in {"resolved", "rejected"}
    /\ callState[2] = "racing"
    /\ isProcessing
    /\ stage[2] \in InFlight

\* the groups of keywords (indexes in Keywords) in their order of priority,
\* and the tag of each group
KeywordGroups == <<{1, 2}, {3, 4}, {5, 6}, {7, 8}, {9, 10}, {11}, {12, 13}>>
GroupTags ==
    <<"cheapest_item", "expensive_item", "pending_orders", "revenue", "categories",
      "category_items|dessert", "category_items|drink">>

\* the groups that have a keyword in the utterance
GroupsPresent(picked) ==
    { g \in 1..Len(KeywordGroups) : KeywordGroups[g] \cap picked # {} }

(* C27: the keyword fallback gives an utterance the tag of the earliest group,
   in the order cheapest/lowest price, expensive/highest price,
   pending/orders, revenue/sales, categories/types, dessert, drink/beverage,
   of which it contains a keyword, whatever the order of the keywords in the
   text and whatever their case, and "general" when it contains none: always
   one of eight strings, determined by the utterance. *)
C27_FirstMatchInPriorityOrder ==
    fallbackCall.state = "classified" =>
        LET present == GroupsPresent(fallbackCall.picked)
        IN  /\ fallbackCall.tag \in { GroupTags[g] : g \in 1..Len(GroupTags) }
                                    \cup {"general"}
            /\ fallbackCall.tag =
                  IF present = {} THEN "general"
                  ELSE GroupTags[CHOOSE g \in present : \A h \in present : g <= h]

\* keywords of two later groups precede, in capitals, one of an earlier group
C27_Witness ==
    /\ fallbackCall.state = "classified"
    /\ fallbackCall.picked = {6, 8, 13}
    /\ fallbackCall.text[6] = "B"
    /\ fallbackCall.tag = "pending_orders"

\* the backend answered with an OK status and a body that parses to an object
BackendSucceeded ==
    /\ backendCall.fetch.kind = "response"
    /\ backendCall.fetch.ok
    /\ backendCall.fetch.body.kind = "object"

\* no connection, a non-OK status, or a body that is not JSON
BackendFailed ==
    \/ backendCall.fetch.kind = "reject"
    \/ /\ backendCall.fetch.kind = "response"
       /\ \/ ~backendCall.fetch.ok
          \/ backendCall.fetch.body.kind = "unparsable"

(* C30: query never throws (the catch block of handleQueryAI never runs);
   after a network failure, a non-OK status or an unparsable body it returns
   result = [], sql_query = '' and a non-empty error string; after a success
   its result is a list, the empty list when the body has no result. *)
C30_QueryNeverThrowsResultIsList ==
    backendCall.state = "shown" =>
        /\ ~backendCall.threw
        /\ BackendFailed =>
              /\ backendCall.queryAIResult.result = JsList(<<>>)
              /\ backendCall.queryAIResult.sql_query = JsString("")
              /\ backendCall.queryAIResult.error.kind = "string"
              /\ backendCall.queryAIResult.error.s # ""
        /\ BackendSucceeded =>
              /\ backendCall.queryAIResult.result.kind = "list"
              /\ backendCall.fetch.body.result.kind = "undefined" =>
                    backendCall.queryAIResult.result = JsList(<<>>)

====
